---- MODULE Spec2Model ----
(***************************************************************************)
(* SingleLinkedList<Type> of single-linked-list.h, modelled at the level   *)
(* of its nodes: every Node (the heap nodes and each list's sentinel       *)
(* head_) has a next_node link, every heap node a value, every list a      *)
(* cached size_.  Each public operation is one action, computed by an      *)
(* operator that transforms the heap the way the method's statements do.   *)
(***************************************************************************)
EXTENDS Integers, Sequences, FiniteSets, TLC

\* ---------------------------------------------------------------- bounds
MaxNodes == 4          \* heap nodes that can be allocated at one time
MaxThrowAt == 2        \* in a construction from values of which a copy
                       \* throws, the number of values, at most

\* ------------------------------------------------------------ the objects
Null == 0              \* nullptr
Lists == {1, 2}        \* the two list objects a program works with
TmpList == 3           \* the local `tmp` of assign
CopyList == 4          \* the local `copy` of operator=
Objects == Lists \cup {TmpList, CopyList}
Addrs == 1..MaxNodes   \* addresses operator new can return
Values == {1, 2}       \* Type: instantiated with a two-valued ordered type
NoValue == 0           \* content of memory that holds no live node

\* &head_ of list object l: the sentinel is a Node that lives in the object
head_(l) == 0 - l
NodeIds == Addrs \cup {head_(l) : l \in Objects}

VARIABLES
    next_node,   \* Node::next_node of every node, sentinels included
    value,       \* Node::value of every heap node
    size_,       \* SingleLinkedList::size_ of every list object
    alloc,       \* the heap nodes allocated by new and not yet deleted
    alive,       \* the list objects that are constructed and not destroyed
    pc,          \* "idle"; "Clear" while the loop of a Clear() is running;
                 \* "compared" while the result of an iterator comparison
                 \* is being used; "thrown" while an exception is on its
                 \* way to the caller; "terminated" after std::terminate;
                 \* "returned" while an observer looks at a finished call
    op,          \* observer: the operation that ran last
    truth,       \* observer: what the last comparison returned
    copied       \* observer: the last copy construction, while one of
                 \* its two lists is as the copy left it

vars == <<next_node, value, size_, alloc, alive, pc, op, truth, copied>>

\* The heap as one value, so that a method's statements compose.
\* new_addrs: the addresses the next calls of operator new return, in order;
\* freed: the nodes deleted so far, in order; ret: the iterator returned.
Heap(addrs) ==
    [next_node |-> next_node, value |-> value, size_ |-> size_,
     alloc |-> alloc, new_addrs |-> addrs, freed |-> <<>>, ret |-> Null]

St == Heap(<<>>)

\* The heap after the step.
StP ==
    [next_node |-> next_node', value |-> value', size_ |-> size_',
     alloc |-> alloc', new_addrs |-> <<>>, freed |-> <<>>, ret |-> Null]

\* ------------------------------------------------------------------ Node
\* The address the next `new Node` returns.
NewAddr(h) == Head(h.new_addrs)

\* new Node(val, next): Node(const Type& val, Node* next)
New(h, val, nxt) ==
    LET a == NewAddr(h) IN
    [h EXCEPT !.next_node[a] = nxt, !.value[a] = val,
              !.alloc = @ \cup {a}, !.new_addrs = Tail(@)]

\* delete p
Delete(h, p) ==
    [h EXCEPT !.alloc = @ \ {p}, !.next_node[p] = Null, !.value[p] = NoValue,
              !.freed = Append(@, p)]

\* --------------------------------------------------------- BasicIterator
\* An iterator is its node_: a heap node, a sentinel, or Null.

\* operator== that takes the end iterator for an iterator to a last node
IterEq_EndIsLast(h, lhs, rhs) ==
    IF lhs = Null /\ rhs = Null THEN TRUE
    ELSE IF lhs = Null THEN h.next_node[rhs] = Null
    ELSE IF rhs = Null THEN h.next_node[lhs] = Null
    ELSE h.next_node[lhs] = h.next_node[rhs]

\* BasicIterator::operator==
IterEq(h, lhs, rhs) ==
    IF lhs = Null /\ rhs = Null THEN TRUE
    ELSE IF lhs = Null \/ rhs = Null THEN FALSE
    ELSE h.next_node[lhs] = h.next_node[rhs]

\* BasicIterator::operator!=
IterNe(h, lhs, rhs) == ~IterEq(h, lhs, rhs)

\* BasicIterator::operator++
Incr(h, it) == h.next_node[it]

\* BasicIterator::operator*
Deref(h, it) == h.value[it]

\* ------------------------------------------------------ SingleLinkedList
GetSize(h, l) == h.size_[l]

IsEmpty(h, l) == h.size_[l] = 0

begin(h, l) == h.next_node[head_(l)]

end(h, l) == Null

before_begin(h, l) == head_(l)

\* SingleLinkedList(): head_(), size_(0)
DefaultInit(h, l) ==
    [h EXCEPT !.next_node[head_(l)] = Null, !.size_[l] = 0]

\* void swap(SingleLinkedList& other)
swap(h, l, other) ==
    [h EXCEPT !.next_node[head_(l)] = h.next_node[head_(other)],
              !.next_node[head_(other)] = h.next_node[head_(l)],
              !.size_[l] = h.size_[other],
              !.size_[other] = h.size_[l]]

\* PushFront with `++size_` left out
PushFront_NoCount(h, l, v) ==
    LET a == NewAddr(h)
        h1 == New(h, v, h.next_node[head_(l)])
    IN  [h1 EXCEPT !.next_node[head_(l)] = a]

\* PushFront whose new node is linked to nothing: new Node(value, nullptr)
PushFront_DropsRest(h, l, v) ==
    LET a == NewAddr(h)
        h1 == New(h, v, Null)
    IN  [h1 EXCEPT !.next_node[head_(l)] = a, !.size_[l] = @ + 1]

\* void PushFront(const Type& value)
PushFront(h, l, v) ==
    LET a == NewAddr(h)
        h1 == New(h, v, h.next_node[head_(l)])
    IN  [h1 EXCEPT !.next_node[head_(l)] = a, !.size_[l] = @ + 1]

\* PopFront with `--size_` left out
PopFront_NoCount(h, l) ==
    IF IsEmpty(h, l) /\ h.next_node[head_(l)] = Null
    THEN h
    ELSE LET ptr_to_delete == h.next_node[head_(l)]
             h1 == [h EXCEPT !.next_node[head_(l)] = h.next_node[ptr_to_delete]]
         IN  Delete(h1, ptr_to_delete)

\* void PopFront()
\* PopFront that unlinks the first node and does not delete it
PopFront_KeepsNode(h, l) ==
    IF IsEmpty(h, l) /\ h.next_node[head_(l)] = Null
    THEN h
    ELSE LET ptr_to_delete == h.next_node[head_(l)]
         IN  [h EXCEPT !.next_node[head_(l)] = h.next_node[ptr_to_delete],
                       !.size_[l] = @ - 1]

PopFront(h, l) ==
    IF IsEmpty(h, l) /\ h.next_node[head_(l)] = Null
    THEN h
    ELSE LET ptr_to_delete == h.next_node[head_(l)]
             h1 == [h EXCEPT !.next_node[head_(l)] = h.next_node[ptr_to_delete],
                             !.size_[l] = @ - 1]
         IN  Delete(h1, ptr_to_delete)

\* The loop of Clear stopping while one node is left
ClearCondition_OneEarly(h, l) ==
    /\ h.next_node[head_(l)] # Null
    /\ h.next_node[h.next_node[head_(l)]] # Null

\* The loop condition of Clear: head_.next_node != nullptr
ClearCondition(h, l) == h.next_node[head_(l)] # Null

\* void Clear(): while (head_.next_node != nullptr) PopFront();
RECURSIVE Clear(_, _)
Clear(h, l) ==
    IF ClearCondition(h, l)
    THEN Clear(PopFront(h, l), l)
    ELSE h

\* ~SingleLinkedList(): Clear(); the sentinel and size_ go with the object
Destructor(h, l) == Clear(h, l)

\* InsertAfter that returns Iterator{pos.node_} instead of the new node
InsertAfter_ReturnsPos(h, l, pos, v) ==
    LET ptr_to_insert == NewAddr(h)
        h1 == New(h, v, h.next_node[pos])
    IN  [h1 EXCEPT !.next_node[pos] = ptr_to_insert,
                   !.size_[l] = @ + 1,
                   !.ret = pos]

\* InsertAfter with `++size_` left out
InsertAfter_NoCount(h, l, pos, v) ==
    LET ptr_to_insert == NewAddr(h)
        h1 == New(h, v, h.next_node[pos])
    IN  [h1 EXCEPT !.next_node[pos] = ptr_to_insert,
                   !.ret = ptr_to_insert]

\* Iterator InsertAfter(ConstIterator pos, const Type& value)
InsertAfter(h, l, pos, v) ==
    LET ptr_to_insert == NewAddr(h)
        h1 == New(h, v, h.next_node[pos])
    IN  [h1 EXCEPT !.next_node[pos] = ptr_to_insert,
                   !.size_[l] = @ + 1,
                   !.ret = ptr_to_insert]

\* EraseAfter that returns the iterator it was given
EraseAfter_ReturnsPos(h, l, pos) ==
    LET ptr_to_delete == h.next_node[pos]
        h1 == [h EXCEPT !.next_node[pos] = h.next_node[ptr_to_delete],
                        !.size_[l] = @ - 1]
        h2 == Delete(h1, ptr_to_delete)
    IN  [h2 EXCEPT !.ret = pos]

\* Iterator EraseAfter(ConstIterator pos)
EraseAfter(h, l, pos) ==
    LET ptr_to_delete == h.next_node[pos]
        h1 == [h EXCEPT !.next_node[pos] = h.next_node[ptr_to_delete],
                        !.size_[l] = @ - 1]
        h2 == Delete(h1, ptr_to_delete)
    IN  [h2 EXCEPT !.ret = h2.next_node[pos]]

\* The loop of assign linking each new node in front of the ones before it
RECURSIVE assign_loop_Reversed(_, _, _, _)
assign_loop_Reversed(h, it, to, last_node_tmp) ==
    IF IterNe(h, it, to)
    THEN LET copy_node == NewAddr(h)
             h1 == New(h, Deref(h, it), h.next_node[head_(TmpList)])
             h2 == [h1 EXCEPT !.next_node[head_(TmpList)] = copy_node,
                              !.size_[TmpList] = @ + 1]
         IN  assign_loop_Reversed(h2, Incr(h2, it), to, copy_node)
    ELSE h

\* The for loop of assign(from, to) over the iterators of a list:
\* for (it = from; it != to; ++it) { new Node(*it, nullptr); link; ++tmp.size_ }
RECURSIVE assign_loop(_, _, _, _)
assign_loop(h, it, to, last_node_tmp) ==
    IF IterNe(h, it, to)
    THEN LET copy_node == NewAddr(h)
             h1 == New(h, Deref(h, it), Null)
             h2 == [h1 EXCEPT !.next_node[last_node_tmp] = copy_node,
                              !.size_[TmpList] = @ + 1]
         IN  assign_loop(h2, Incr(h2, it), to, copy_node)
    ELSE h

\* The same loop over the pointers of an initializer_list: values[i..]
RECURSIVE assign_values_loop(_, _, _, _)
assign_values_loop(h, values, i, last_node_tmp) ==
    IF i # Len(values) + 1
    THEN LET copy_node == NewAddr(h)
             h1 == New(h, values[i], Null)
             h2 == [h1 EXCEPT !.next_node[last_node_tmp] = copy_node,
                              !.size_[TmpList] = @ + 1]
         IN  assign_values_loop(h2, values, i + 1, copy_node)
    ELSE h

\* void assign(InputIterator from, InputIterator to):
\* tmp = {}; the loop; swap(tmp); ~tmp
assign(h, l, from, to) ==
    LET h0 == DefaultInit(h, TmpList)
        h1 == assign_loop(h0, from, to, head_(TmpList))
        h2 == swap(h1, l, TmpList)
    IN  Destructor(h2, TmpList)

\* void assign(const std::initializer_list<Type>& values)
assign_values(h, l, values) ==
    LET h0 == DefaultInit(h, TmpList)
        h1 == assign_values_loop(h0, values, 1, head_(TmpList))
        h2 == swap(h1, l, TmpList)
    IN  Destructor(h2, TmpList)

\* SingleLinkedList(std::initializer_list<Type> values)
InitListConstructor(h, l, values) ==
    assign_values(DefaultInit(h, l), l, values)

\* A copy constructor that copies the members, as the implicit one would
CopyConstructor_Shallow(h, l, other) ==
    [h EXCEPT !.next_node[head_(l)] = h.next_node[head_(other)],
              !.size_[l] = h.size_[other]]

\* SingleLinkedList(const SingleLinkedList& other)
CopyConstructor(h, l, other) ==
    LET h0 == DefaultInit(h, l)
    IN  assign(h0, l, begin(h0, other), end(h0, other))

\* operator= with `swap(copy)` left out: the copy is made and destroyed
CopyAssign_NoSwap(h, l, rhs) ==
    IF l # rhs
    THEN LET h1 == CopyConstructor(h, CopyList, rhs)
         IN  Destructor(h1, CopyList)
    ELSE h

\* SingleLinkedList& operator=(const SingleLinkedList& rhs)
CopyAssign(h, l, rhs) ==
    IF l # rhs
    THEN LET h1 == CopyConstructor(h, CopyList, rhs)
             h2 == swap(h1, l, CopyList)
         IN  Destructor(h2, CopyList)
    ELSE h

\* ------------------------------------------------------------ exceptions
\* A new-expression throws when the copy of the value throws (or operator
\* new does): no node is made.  In new_addrs a Null stands for a
\* new-expression that throws.  An operation that may throw yields the heap
\* it leaves and how it ended: "none" (it returned), "thrown" (the exception
\* left it, to its caller), "terminate" (the exception met a noexcept
\* function: std::terminate, the program is over).
Returned(h) == [heap |-> h, exc |-> "none"]
Thrown(h) == [heap |-> h, exc |-> "thrown"]
Terminated(h) == [heap |-> h, exc |-> "terminate"]

\* new Node(val, next), which may throw
TryNew(h, val, nxt) ==
    IF NewAddr(h) = Null
    THEN Thrown([h EXCEPT !.new_addrs = Tail(@)])
    ELSE Returned(New(h, val, nxt))

\* InsertAfter that counts the node before it makes it
InsertAfterMayThrow_CountsFirst(h, l, pos, v) ==
    LET ptr_to_insert == NewAddr(h)
        h0 == [h EXCEPT !.size_[l] = @ + 1]
        r == TryNew(h0, v, h0.next_node[pos])
    IN  IF r.exc # "none" THEN r
        ELSE Returned([r.heap EXCEPT !.next_node[pos] = ptr_to_insert,
                                     !.ret = ptr_to_insert])

\* Iterator InsertAfter(ConstIterator pos, const Type& value), the
\* new-expression of line 325 being the statement that may throw
InsertAfterMayThrow(h, l, pos, v) ==
    LET ptr_to_insert == NewAddr(h)
        r == TryNew(h, v, h.next_node[pos])
    IN  IF r.exc # "none" THEN r
        ELSE Returned([r.heap EXCEPT !.next_node[pos] = ptr_to_insert,
                                     !.size_[l] = @ + 1,
                                     !.ret = ptr_to_insert])

\* The for loop of assign(from, to) over the iterators of a list, the
\* new-expression of line 360 being the statement that may throw
RECURSIVE assign_loop_MayThrow(_, _, _, _)
assign_loop_MayThrow(h, it, to, last_node_tmp) ==
    IF IterNe(h, it, to)
    THEN LET copy_node == NewAddr(h)
             r == TryNew(h, Deref(h, it), Null)
             h2 == [r.heap EXCEPT !.next_node[last_node_tmp] = copy_node,
                                  !.size_[TmpList] = @ + 1]
         IN  IF r.exc # "none" THEN r
             ELSE assign_loop_MayThrow(h2, Incr(h2, it), to, copy_node)
    ELSE Returned(h)

\* The same loop over the pointers of an initializer_list
RECURSIVE assign_values_loop_MayThrow(_, _, _, _)
assign_values_loop_MayThrow(h, values, i, last_node_tmp) ==
    IF i # Len(values) + 1
    THEN LET copy_node == NewAddr(h)
             r == TryNew(h, values[i], Null)
             h2 == [r.heap EXCEPT !.next_node[last_node_tmp] = copy_node,
                                  !.size_[TmpList] = @ + 1]
         IN  IF r.exc # "none" THEN r
             ELSE assign_values_loop_MayThrow(h2, values, i + 1, copy_node)
    ELSE Returned(h)

\* How assign ends after its loop, r being how the loop ended.  assign is
\* noexcept: an exception that leaves the loop ends the program, and
\* whether tmp is destroyed before (the stack unwound) is up to the
\* implementation.
assign_end(r, l, unwinds) ==
    IF r.exc = "none"
    THEN Returned(Destructor(swap(r.heap, l, TmpList), TmpList))
    ELSE Terminated(IF unwinds THEN Destructor(r.heap, TmpList) ELSE r.heap)

\* void assign(InputIterator from, InputIterator to) noexcept
assign_MayThrow(h, l, from, to, unwinds) ==
    LET h0 == DefaultInit(h, TmpList)
    IN  assign_end(assign_loop_MayThrow(h0, from, to, head_(TmpList)),
                   l, unwinds)

\* void assign(const std::initializer_list<Type>& values) noexcept
assign_values_MayThrow(h, l, values, unwinds) ==
    LET h0 == DefaultInit(h, TmpList)
    IN  assign_end(assign_values_loop_MayThrow(h0, values, 1, head_(TmpList)),
                   l, unwinds)

\* SingleLinkedList(std::initializer_list<Type> values)
InitListConstructor_MayThrow(h, l, values, unwinds) ==
    assign_values_MayThrow(DefaultInit(h, l), l, values, unwinds)

\* SingleLinkedList(const SingleLinkedList& other)
CopyConstructor_MayThrow(h, l, other, unwinds) ==
    LET h0 == DefaultInit(h, l)
    IN  assign_MayThrow(h0, l, begin(h0, other), end(h0, other), unwinds)

\* SingleLinkedList& operator=(const SingleLinkedList& rhs)
CopyAssign_MayThrow(h, l, rhs, unwinds) ==
    IF l # rhs
    THEN LET r == CopyConstructor_MayThrow(h, CopyList, rhs, unwinds)
         IN  IF r.exc # "none" THEN r
             ELSE Returned(Destructor(swap(r.heap, l, CopyList), CopyList))
    ELSE Returned(h)

\* -------------------------------------------------------- free operators
\* std::equal(first1, last1, first2) as operator== calls it: the loop
\* condition is BasicIterator::operator!=
RECURSIVE std_equal(_, _, _, _)
std_equal(h, first1, last1, first2) ==
    IF IterNe(h, first1, last1)
    THEN IF Deref(h, first1) = Deref(h, first2)
         THEN std_equal(h, Incr(h, first1), last1, Incr(h, first2))
         ELSE FALSE
    ELSE TRUE

\* std::lexicographical_compare(first1, last1, first2, last2) as operator<
\* calls it
RECURSIVE lexicographical_compare(_, _, _, _, _)
lexicographical_compare(h, first1, last1, first2, last2) ==
    IF IterNe(h, first1, last1) /\ IterNe(h, first2, last2)
    THEN IF Deref(h, first1) < Deref(h, first2) THEN TRUE
         ELSE IF Deref(h, first2) < Deref(h, first1) THEN FALSE
         ELSE lexicographical_compare(h, Incr(h, first1), last1,
                                      Incr(h, first2), last2)
    ELSE IterEq(h, first1, last1) /\ IterNe(h, first2, last2)

\* operator== with the call of std::equal left out
OperatorEq_SizeOnly(h, lhs, rhs) ==
    (lhs = rhs) \/ (GetSize(h, lhs) = GetSize(h, rhs))

\* bool operator==(lhs, rhs)
OperatorEq(h, lhs, rhs) ==
    (lhs = rhs)
    \/ (GetSize(h, lhs) = GetSize(h, rhs)
        /\ std_equal(h, begin(h, lhs), end(h, lhs), begin(h, rhs)))

\* bool operator!=(lhs, rhs)
OperatorNe(h, lhs, rhs) == ~OperatorEq(h, lhs, rhs)

\* operator< with the two ranges given the other way round
OperatorLt_Reversed(h, lhs, rhs) ==
    lexicographical_compare(h, begin(h, rhs), end(h, rhs),
                            begin(h, lhs), end(h, lhs))

\* bool operator<(lhs, rhs)
OperatorLt(h, lhs, rhs) ==
    lexicographical_compare(h, begin(h, lhs), end(h, lhs),
                            begin(h, rhs), end(h, rhs))

\* bool operator>(lhs, rhs)
OperatorGt(h, lhs, rhs) == ~OperatorLt(h, lhs, rhs) \/ OperatorNe(h, lhs, rhs)

\* bool operator<=(lhs, rhs)
OperatorLe(h, lhs, rhs) == OperatorLt(h, lhs, rhs) \/ OperatorEq(h, lhs, rhs)

\* bool operator>=(lhs, rhs)
OperatorGe(h, lhs, rhs) == ~OperatorLt(h, lhs, rhs)

CmpNames == {"==", "!=", "<", ">", "<=", ">="}

CompareBy(which, h, lhs, rhs) ==
    CASE which = "==" -> OperatorEq(h, lhs, rhs)
      [] which = "!=" -> OperatorNe(h, lhs, rhs)
      [] which = "<"  -> OperatorLt(h, lhs, rhs)
      [] which = ">"  -> OperatorGt(h, lhs, rhs)
      [] which = "<=" -> OperatorLe(h, lhs, rhs)
      [] which = ">=" -> OperatorGe(h, lhs, rhs)

\* ------------------------------------------------- what a list looks like
\* The nodes met by following next_node from node n up to a null link, at
\* most `fuel` of them (a walk that runs out of fuel has met a cycle).
RECURSIVE Walk(_, _, _)
Walk(h, n, fuel) ==
    IF n = Null \/ fuel = 0 THEN <<>>
    ELSE <<n>> \o Walk(h, h.next_node[n], fuel - 1)

\* The nodes of list l in order, the sentinel not among them.
Chain(h, l) == Walk(h, h.next_node[head_(l)], MaxNodes + 1)

\* The elements of list l in order: what iterating begin()..end() yields.
Elems(h, l) == LET c == Chain(h, l) IN [i \in 1..Len(c) |-> h.value[c[i]]]

Range(s) == {s[i] : i \in 1..Len(s)}

\* The positions InsertAfter and EraseAfter may be given for list l:
\* before_begin() or an iterator to one of its elements.
Positions(h, l) == {head_(l)} \cup Range(Chain(h, l))

\* The iterators a program can hold into list l: before_begin(), an iterator
\* to one of its elements (begin() advanced some times), or end().
Iters(h, l) == Positions(h, l) \cup {end(h, l)}

\* The index of position pos in list l: 0 for the sentinel, i for element i.
IndexOf(h, l, pos) ==
    IF pos = head_(l) THEN 0
    ELSE CHOOSE i \in 1..Len(Chain(h, l)) : Chain(h, l)[i] = pos

\* s with x inserted after its first i elements / without its element i
InsertAt(s, i, x) == SubSeq(s, 1, i) \o <<x>> \o SubSeq(s, i + 1, Len(s))
RemoveAt(s, i) == SubSeq(s, 1, i - 1) \o SubSeq(s, i + 1, Len(s))

\* Lexicographic order of two sequences of values.
RECURSIVE LexLess(_, _)
LexLess(s, t) ==
    IF t = <<>> THEN FALSE
    ELSE IF s = <<>> THEN TRUE
    ELSE IF s[1] # t[1] THEN s[1] < t[1]
    ELSE LexLess(Tail(s), Tail(t))

\* ------------------------------------------------------------ the actions
Free == Addrs \ alloc

\* The addresses n successive calls of operator new may return.
NewAddrs(n) ==
    {a \in [1..n -> Free] : \A i, j \in 1..n : i # j => a[i] # a[j]}

\* All sequences of at most n values.
ValueSeqs(n) == UNION {[1..k -> Values] : k \in 0..n}

Commit(h) ==
    /\ next_node' = h.next_node
    /\ value' = h.value
    /\ size_' = h.size_
    /\ alloc' = h.alloc

Idle == pc = "idle"

Init ==
    /\ next_node = [n \in NodeIds |-> Null]
    /\ value = [a \in Addrs |-> NoValue]
    /\ size_ = [l \in Objects |-> 0]
    /\ alloc = {}
    /\ alive = [l \in Lists |-> FALSE]
    /\ pc = "idle"
    /\ op = [name |-> "start"]
    /\ truth = FALSE
    /\ copied = [made |-> FALSE]

\* SingleLinkedList l;
DoConstruct(l) ==
    /\ Idle /\ ~alive[l]
    /\ Commit(DefaultInit(St, l))
    /\ alive' = [alive EXCEPT ![l] = TRUE]

\* SingleLinkedList l{values};
DoConstructFrom(l, values, addrs) ==
    /\ Idle /\ ~alive[l]
    /\ Commit(InitListConstructor(Heap(addrs), l, values))
    /\ alive' = [alive EXCEPT ![l] = TRUE]

\* SingleLinkedList l(other);
DoCopyConstruct(l, other, addrs) ==
    /\ Idle /\ ~alive[l] /\ alive[other]
    /\ Commit(CopyConstructor(Heap(addrs), l, other))
    /\ alive' = [alive EXCEPT ![l] = TRUE]

\* l goes out of scope
DoDestroy(l) ==
    /\ Idle /\ alive[l]
    /\ Commit(Destructor(St, l))
    /\ alive' = [alive EXCEPT ![l] = FALSE]

\* l = rhs;
DoCopyAssign(l, rhs, addrs) ==
    /\ Idle /\ alive[l] /\ alive[rhs]
    /\ Commit(CopyAssign(Heap(addrs), l, rhs))
    /\ UNCHANGED alive

\* l.swap(other) that gives l the chain and the size of other and leaves
\* other what it has
DoSwap_SharesChain(l, other) ==
    /\ Idle /\ alive[l] /\ alive[other]
    /\ Commit([St EXCEPT !.next_node[head_(l)] = St.next_node[head_(other)],
                         !.size_[l] = St.size_[other]])
    /\ UNCHANGED alive

\* l.swap(other) with `std::swap(size_, other.size_)` left out
DoSwap_NoSize(l, other) ==
    /\ Idle /\ alive[l] /\ alive[other]
    /\ Commit([St EXCEPT !.next_node[head_(l)] = St.next_node[head_(other)],
                         !.next_node[head_(other)] = St.next_node[head_(l)]])
    /\ UNCHANGED alive

\* l.swap(other); or swap(l, other);
DoSwap(l, other) ==
    /\ Idle /\ alive[l] /\ alive[other]
    /\ Commit(swap(St, l, other))
    /\ UNCHANGED alive

\* l.PushFront(v);
DoPushFront(l, v, addrs) ==
    /\ Idle /\ alive[l]
    /\ Commit(PushFront(Heap(addrs), l, v))
    /\ UNCHANGED alive

\* l.PopFront();
DoPopFront(l) ==
    /\ Idle /\ alive[l]
    /\ Commit(PopFront(St, l))
    /\ UNCHANGED alive

\* l.Clear();
DoClear(l) ==
    /\ Idle /\ alive[l]
    /\ Commit(Clear(St, l))
    /\ UNCHANGED alive

\* l.InsertAfter(pos, v); pos is before_begin() or at an element of l
DoInsertAfter(l, pos, v, addrs) ==
    /\ Idle /\ alive[l]
    /\ pos \in Positions(St, l)
    /\ Commit(InsertAfter(Heap(addrs), l, pos, v))
    /\ UNCHANGED alive

\* l.EraseAfter(pos); pos is before_begin() or at an element of l, and
\* has a successor
DoEraseAfter(l, pos) ==
    /\ Idle /\ alive[l]
    /\ pos \in Positions(St, l)
    /\ next_node[pos] # Null
    /\ Commit(EraseAfter(St, l, pos))
    /\ UNCHANGED alive

\* *it = v; for an iterator it at an element of l
DoWrite(l, it, v) ==
    /\ Idle /\ alive[l]
    /\ it \in Range(Chain(St, l))
    /\ value' = [value EXCEPT ![it] = v]
    /\ UNCHANGED <<next_node, size_, alloc, alive>>

\* lhs <which> rhs
DoCompare(which, lhs, rhs) ==
    /\ Idle /\ alive[lhs] /\ alive[rhs]
    /\ UNCHANGED <<next_node, value, size_, alloc, alive, pc, copied>>
    /\ op' = [name |-> which, lhs |-> lhs, rhs |-> rhs]
    /\ truth' = CompareBy(which, St, lhs, rhs)

\* it == jt and it != jt, for an iterator it of list l and jt of list m.
\* The observer keeps the two results and whether the lists and the nodes
\* are the same, whether it was before_begin() compared with begin(), and
\* whether list l is empty.
DoIterCompare(l, it, m, jt) ==
    /\ Idle /\ alive[l] /\ alive[m]
    /\ it \in Iters(St, l) /\ jt \in Iters(St, m)
    /\ pc' = "compared"
    /\ op' = [name |-> "iterator==", same_list |-> l = m,
              same_node |-> it = jt,
              before_begin_begin |->
                  l = m /\ it = before_begin(St, l) /\ jt = begin(St, l),
              empty |-> IsEmpty(St, l),
              ne |-> IterNe(St, it, jt)]
    /\ truth' = IterEq(St, it, jt)
    /\ UNCHANGED <<next_node, value, size_, alloc, alive, copied>>

\* The program has used the two results and goes on.
DoIterCompared ==
    /\ pc = "compared"
    /\ pc' = "idle"
    /\ op' = [name |-> "other"]
    /\ truth' = FALSE
    /\ UNCHANGED <<next_node, value, size_, alloc, alive, copied>>

\* Where the program is after an operation that ended with exc.
PcAfter(exc) ==
    IF exc = "terminate" THEN "terminated"
    ELSE IF exc = "thrown" THEN "thrown"
    ELSE "idle"

\* The addresses of n new-expressions of which the last throws.
ThrowingAddrs(n) == {Append(a, Null) : a \in NewAddrs(n - 1)}

\* An operation in which a copy throws: it leaves the heap and the outcome
\* r, and the observer keeps the call, the heap it started from and how it
\* ended.
Throwing(r, call) ==
    /\ Commit(r.heap)
    /\ pc' = PcAfter(r.exc)
    /\ op' = [name |-> call.name, call |-> call, pre |-> St, exc |-> r.exc]
    /\ UNCHANGED <<alive, truth, copied>>

\* l.InsertAfter(pos, v); the copy of v throws
DoInsertAfterThrows(l, pos, v) ==
    /\ Idle /\ alive[l]
    /\ pos \in Positions(St, l)
    /\ Throwing(InsertAfterMayThrow(Heap(<<Null>>), l, pos, v),
                [name |-> "InsertAfter", list |-> l, pos |-> pos])

\* SingleLinkedList l{values}; the last of the copies made throws
DoConstructFromThrows(l, values, addrs, unwinds) ==
    /\ Idle /\ ~alive[l]
    /\ Throwing(InitListConstructor_MayThrow(Heap(addrs), l, values, unwinds),
                [name |-> "SingleLinkedList(values)", list |-> l,
                 values |-> values])

\* SingleLinkedList l(other); the last of the copies made throws
DoCopyConstructThrows(l, other, addrs, unwinds) ==
    /\ Idle /\ ~alive[l] /\ alive[other]
    /\ Throwing(CopyConstructor_MayThrow(Heap(addrs), l, other, unwinds),
                [name |-> "SingleLinkedList(other)", list |-> l,
                 other |-> other])

\* l = rhs; the last of the copies made throws
DoCopyAssignThrows(l, rhs, addrs, unwinds) ==
    /\ Idle /\ alive[l] /\ alive[rhs] /\ l # rhs
    /\ Throwing(CopyAssign_MayThrow(Heap(addrs), l, rhs, unwinds),
                [name |-> "operator=", list |-> l, other |-> rhs])

\* The caller catches the exception and goes on.
\* The program goes on after a call an observer has stopped it at.
DoReturned ==
    /\ pc = "returned"
    /\ pc' = "idle"
    /\ op' = [name |-> "other"]
    /\ UNCHANGED <<next_node, value, size_, alloc, alive, truth, copied>>

DoCatch ==
    /\ pc = "thrown"
    /\ pc' = "idle"
    /\ op' = [name |-> "other"]
    /\ truth' = FALSE
    /\ UNCHANGED <<next_node, value, size_, alloc, alive, copied>>

\* l.Clear() is called: the loop is entered
DoClearCall(l) ==
    /\ Idle /\ alive[l]
    /\ pc' = "Clear"
    /\ op' = [name |-> "Clear", list |-> l, len |-> Len(Chain(St, l)),
              pops |-> 0]
    /\ UNCHANGED <<next_node, value, size_, alloc, alive, truth, copied>>

\* One turn of the loop of the running Clear(): PopFront()
DoClearLoop ==
    /\ pc = "Clear"
    /\ ClearCondition(St, op.list)
    /\ Commit(PopFront(St, op.list))
    /\ op' = [op EXCEPT !.pops = @ + 1]
    /\ UNCHANGED <<alive, pc, truth, copied>>

\* The loop of the running Clear() ends and Clear() returns
DoClearReturn ==
    /\ pc = "Clear"
    /\ ~ClearCondition(St, op.list)
    /\ pc' = "idle"
    /\ op' = [op EXCEPT !.name = "Clear returned"]
    /\ UNCHANGED <<next_node, value, size_, alloc, alive, truth, copied>>

\* --------------------------------------------------------- the observers
\* The observers look at the calls a program makes; they change nothing of
\* the lists.  An observer may stop the program after a call (pc).

\* The observer that keeps the name of the last call.
ObserveName(call) ==
    op' = [name |-> call.name] /\ UNCHANGED <<pc, truth, copied>>

\* An observer that watches the calls named in `names`: of such a call it
\* keeps the arguments, the result and the heap the call started from; of
\* any other call nothing.
Watch(names, call) ==
    /\ op' = IF call.name \in names
             THEN [name |-> call.name, call |-> call, pre |-> St]
             ELSE [name |-> "other"]
    /\ UNCHANGED <<pc, truth, copied>>

\* The observer that keeps nothing.
WatchNothing(call) ==
    op' = [name |-> "other"] /\ truth' = FALSE /\ UNCHANGED <<pc, copied>>

\* The observers of single operations.
WatchInsertAfter(call) == Watch({"InsertAfter"}, call)

WatchEraseAfter(call) == Watch({"EraseAfter"}, call)

WatchFront(call) == Watch({"PushFront", "PopFront"}, call)

WatchConstruct(call) ==
    Watch({"SingleLinkedList(values)", "SingleLinkedList(other)"}, call)

\* The calls that change the list they are called on.
Mutators ==
    {"PushFront", "PopFront", "InsertAfter", "EraseAfter", "Clear", "write",
     "~SingleLinkedList"}

\* The observer of copies: of a copy construction it keeps the two lists,
\* the elements of the source and the nodes of both; from then on it marks
\* a list that an operation is called on as no longer clean, and forgets
\* the copy when neither is clean or the two are assigned or swapped.
WatchCopy(call) ==
    /\ copied' =
         IF call.name = "SingleLinkedList(other)"
         THEN [made |-> TRUE, src |-> call.other, dst |-> call.list,
               clean |-> {call.other, call.list},
               elems |-> Elems(St, call.other),
               chain |-> [x \in Lists |-> Chain(StP, x)]]
         ELSE IF ~copied.made THEN copied
         ELSE IF call.name \in Mutators /\ copied.clean \ {call.list} # {}
         THEN [copied EXCEPT !.clean = @ \ {call.list}]
         ELSE [made |-> FALSE]
    /\ op' = [name |-> "other"]
    /\ UNCHANGED <<pc, truth>>

WatchAssign(call) == Watch({"operator="}, call)

WatchSwap(call) == Watch({"swap"}, call)

\* The observer of delete: it stops the program after every call and keeps
\* the nodes the call deleted, in order, the nodes that were allocated
\* before the call and the chain its list had.
WatchDelete(call) ==
    /\ pc' = "returned"
    /\ op' = [name |-> call.name, list |-> call.list, freed |-> call.freed,
              pre_alloc |-> alloc, owned |-> Chain(St, call.list)]
    /\ UNCHANGED <<truth, copied>>

\* The observer named obs is told of a call.
Observe(obs, call) ==
    CASE obs = "name"        -> ObserveName(call)
      [] obs = "nothing"     -> WatchNothing(call)
      [] obs = "InsertAfter" -> WatchInsertAfter(call)
      [] obs = "EraseAfter"  -> WatchEraseAfter(call)
      [] obs = "front"       -> WatchFront(call)
      [] obs = "construct"   -> WatchConstruct(call)
      [] obs = "copy"        -> WatchCopy(call)
      [] obs = "assign"      -> WatchAssign(call)
      [] obs = "swap"        -> WatchSwap(call)
      [] obs = "delete"      -> WatchDelete(call)

\* ------------------------------------------------- the program's steps
\* One step per operation a program can run on the two lists, when no call
\* is under way.  Each tells the observer named obs which call it made and
\* which nodes the call deleted, in order.
StepConstruct(obs) ==
    /\ Idle
    /\ \E l \in Lists :
         /\ DoConstruct(l)
         /\ Observe(obs, [name |-> "SingleLinkedList", list |-> l,
                 freed |-> DefaultInit(St, l).freed])

StepConstructFrom(obs) ==
    /\ Idle
    /\ \E l \in Lists : \E values \in ValueSeqs(Cardinality(Free)) :
         \E addrs \in NewAddrs(Len(values)) :
           /\ DoConstructFrom(l, values, addrs)
           /\ Observe(obs, [name |-> "SingleLinkedList(values)", list |-> l, values |-> values,
                   freed |-> InitListConstructor(Heap(addrs), l, values).freed])

StepCopyConstruct(obs) ==
    /\ Idle
    /\ \E l, other \in Lists :
         /\ Len(Chain(St, other)) <= Cardinality(Free)
         /\ \E addrs \in NewAddrs(Len(Chain(St, other))) :
              /\ DoCopyConstruct(l, other, addrs)
              /\ Observe(obs, [name |-> "SingleLinkedList(other)", list |-> l, other |-> other,
                      freed |-> CopyConstructor(Heap(addrs), l, other).freed])

StepDestroy(obs) ==
    /\ Idle
    /\ \E l \in Lists :
         /\ DoDestroy(l)
         /\ Observe(obs, [name |-> "~SingleLinkedList", list |-> l,
                 freed |-> Destructor(St, l).freed])

StepCopyAssign(obs) ==
    /\ Idle
    /\ \E l, rhs \in Lists :
         /\ l = rhs \/ Len(Chain(St, rhs)) <= Cardinality(Free)
         /\ \E addrs \in NewAddrs(IF l = rhs THEN 0 ELSE Len(Chain(St, rhs))) :
              /\ DoCopyAssign(l, rhs, addrs)
              /\ Observe(obs, [name |-> "operator=", list |-> l, other |-> rhs,
                      freed |-> CopyAssign(Heap(addrs), l, rhs).freed])

StepSwap(obs) ==
    /\ Idle
    /\ \E l, other \in Lists :
         /\ DoSwap(l, other)
         /\ Observe(obs, [name |-> "swap", list |-> l, other |-> other,
                 freed |-> swap(St, l, other).freed])

StepPushFront(obs) ==
    /\ Idle
    /\ \E l \in Lists : \E v \in Values : \E addrs \in NewAddrs(1) :
         /\ DoPushFront(l, v, addrs)
         /\ Observe(obs, [name |-> "PushFront", list |-> l, val |-> v,
                 freed |-> PushFront(Heap(addrs), l, v).freed])

StepPopFront(obs) ==
    /\ Idle
    /\ \E l \in Lists :
         /\ DoPopFront(l)
         /\ Observe(obs, [name |-> "PopFront", list |-> l, freed |-> PopFront(St, l).freed])

StepClear(obs) ==
    /\ Idle
    /\ \E l \in Lists :
         /\ DoClear(l)
         /\ Observe(obs, [name |-> "Clear", list |-> l, freed |-> Clear(St, l).freed])

StepInsertAfter(obs) ==
    /\ Idle
    /\ \E l \in Lists : \E pos \in Positions(St, l) : \E v \in Values :
         \E addrs \in NewAddrs(1) :
           /\ DoInsertAfter(l, pos, v, addrs)
           /\ Observe(obs, [name |-> "InsertAfter", list |-> l, pos |-> pos, val |-> v,
                   ret |-> InsertAfter(Heap(addrs), l, pos, v).ret,
                   freed |-> InsertAfter(Heap(addrs), l, pos, v).freed])

StepEraseAfter(obs) ==
    /\ Idle
    /\ \E l \in Lists : \E pos \in Positions(St, l) :
         /\ DoEraseAfter(l, pos)
         /\ Observe(obs, [name |-> "EraseAfter", list |-> l, pos |-> pos,
                 ret |-> EraseAfter(St, l, pos).ret,
                 freed |-> EraseAfter(St, l, pos).freed])

StepWrite(obs) ==
    /\ Idle
    /\ \E l \in Lists : \E it \in Range(Chain(St, l)) : \E v \in Values :
         /\ DoWrite(l, it, v)
         /\ Observe(obs, [name |-> "write", list |-> l, pos |-> it, val |-> v,
                 freed |-> St.freed])

\* ---------------------------------------------------------------- Spec
\* Any sequence of operations.
Next ==
    \/ StepConstruct("name")
    \/ StepConstructFrom("name")
    \/ StepCopyConstruct("name")
    \/ StepDestroy("name")
    \/ StepCopyAssign("name")
    \/ StepSwap("name")
    \/ StepPushFront("name")
    \/ StepPopFront("name")
    \/ StepClear("name")
    \/ StepInsertAfter("name")
    \/ StepEraseAfter("name")
    \/ StepWrite("name")

Spec == Init /\ [][Next]_vars

\* ------------------------------------------------------------ the claims
\* Whether list m is in heap h what it is in heap g: nodes, elements, size.
SameList(h, g, m) ==
    /\ Chain(h, m) = Chain(g, m)
    /\ Elems(h, m) = Elems(g, m)
    /\ GetSize(h, m) = GetSize(g, m)

\* ---------------------------------------------------------- InsertAfter
NextInsertAfter ==
    \/ StepConstruct("InsertAfter")
    \/ StepConstructFrom("InsertAfter")
    \/ StepCopyConstruct("InsertAfter")
    \/ StepDestroy("InsertAfter")
    \/ StepCopyAssign("InsertAfter")
    \/ StepSwap("InsertAfter")
    \/ StepPushFront("InsertAfter")
    \/ StepPopFront("InsertAfter")
    \/ StepClear("InsertAfter")
    \/ StepInsertAfter("InsertAfter")
    \/ StepEraseAfter("InsertAfter")
    \/ StepWrite("InsertAfter")

SpecInsertAfter == Init /\ [][NextInsertAfter]_vars

\* C3: InsertAfter(pos, v), pos the sentinel or an element of the list,
\* puts one new node holding v right after pos, adds 1 to the size, keeps
\* every other node and element in place and order, and returns an iterator
\* to the new node, whose successor is the former successor of pos.
InsertAfterContract ==
    op.name = "InsertAfter" =>
      LET pre == op.pre
          l == op.call.list
          pos == op.call.pos
          v == op.call.val
          r == op.call.ret
          i == IndexOf(pre, l, pos)
      IN  /\ r \notin pre.alloc /\ r \in alloc
          /\ Deref(St, r) = v
          /\ Incr(St, r) = pre.next_node[pos]
          /\ Incr(St, pos) = r
          /\ GetSize(St, l) = GetSize(pre, l) + 1
          /\ Chain(St, l) = InsertAt(Chain(pre, l), i, r)
          /\ Elems(St, l) = InsertAt(Elems(pre, l), i, v)
          /\ \A m \in Lists \ {l} : SameList(St, pre, m)

\* C3 witness: InsertAfter at the first element of 1, 1 has made 1, 2, 1.
InsertAfterWitness ==
    /\ op.name = "InsertAfter"
    /\ op.call.pos = begin(op.pre, op.call.list)
    /\ Elems(op.pre, op.call.list) = <<1, 1>>
    /\ Elems(St, op.call.list) = <<1, 2, 1>>

\* What a program can see of list l: size, emptiness, elements, *begin().
Observable(h, l) ==
    <<GetSize(h, l), IsEmpty(h, l), Elems(h, l),
      IF begin(h, l) = Null THEN NoValue ELSE Deref(h, begin(h, l))>>

\* C6: from any reachable state, InsertAfter(before_begin(), v) and
\* PushFront(v) give lists that look the same: size, elements, *begin().
InsertAfterBeforeBeginIsPushFront ==
    \A l \in Lists : \A v \in Values : \A a \in Free :
      alive[l] =>
        LET pushed == PushFront(Heap(<<a>>), l, v)
            inserted == InsertAfter(Heap(<<a>>), l, before_begin(St, l), v)
        IN  /\ Observable(inserted, l) = Observable(pushed, l)
            /\ Deref(inserted, inserted.ret) = Deref(pushed, begin(pushed, l))
            /\ \A m \in Lists \ {l} : Observable(inserted, m) = Observable(pushed, m)

\* C6 witness: InsertAfter(before_begin(), 2) on the list 1, 1 has made what
\* PushFront(2) makes of it, and there is room for a further node.
InsertAfterBeforeBeginWitness ==
    /\ op.name = "InsertAfter"
    /\ op.call.pos = before_begin(op.pre, op.call.list)
    /\ Elems(op.pre, op.call.list) = <<1, 1>>
    /\ Observable(St, op.call.list)
         = Observable(PushFront([op.pre EXCEPT !.new_addrs = <<op.call.ret>>],
                                op.call.list, 2), op.call.list)
    /\ Free # {}

\* ----------------------------------------------------------- EraseAfter
NextEraseAfter ==
    \/ StepConstruct("EraseAfter")
    \/ StepConstructFrom("EraseAfter")
    \/ StepCopyConstruct("EraseAfter")
    \/ StepDestroy("EraseAfter")
    \/ StepCopyAssign("EraseAfter")
    \/ StepSwap("EraseAfter")
    \/ StepPushFront("EraseAfter")
    \/ StepPopFront("EraseAfter")
    \/ StepClear("EraseAfter")
    \/ StepInsertAfter("EraseAfter")
    \/ StepEraseAfter("EraseAfter")
    \/ StepWrite("EraseAfter")

SpecEraseAfter == Init /\ [][NextEraseAfter]_vars

\* C4: EraseAfter(pos), pos the sentinel or an element with a successor,
\* removes exactly the node after pos, takes 1 off the size, keeps all other
\* nodes and elements in place and order, and returns an iterator to the
\* node that now follows pos: end() when the last node was removed.
EraseAfterContract ==
    op.name = "EraseAfter" =>
      LET pre == op.pre
          l == op.call.list
          pos == op.call.pos
          r == op.call.ret
          i == IndexOf(pre, l, pos)
          removed == pre.next_node[pos]
      IN  /\ removed \in pre.alloc /\ removed \notin alloc
          /\ r = pre.next_node[removed]
          /\ r = Incr(St, pos)
          /\ (i + 1 = Len(Chain(pre, l))) => IterEq(St, r, end(St, l))
          /\ (i + 1 < Len(Chain(pre, l))) =>
               /\ r = Chain(pre, l)[i + 2]
               /\ Deref(St, r) = Elems(pre, l)[i + 2]
          /\ GetSize(St, l) = GetSize(pre, l) - 1
          /\ Chain(St, l) = RemoveAt(Chain(pre, l), i + 1)
          /\ Elems(St, l) = RemoveAt(Elems(pre, l), i + 1)
          /\ \A m \in Lists \ {l} : SameList(St, pre, m)

\* C4 witness: EraseAfter(begin()) on 1, 1, 2 has left 1, 2 and returned an
\* iterator to the 2.
EraseAfterWitness ==
    /\ op.name = "EraseAfter"
    /\ op.call.pos = begin(op.pre, op.call.list)
    /\ Elems(op.pre, op.call.list) = <<1, 1, 2>>
    /\ Elems(St, op.call.list) = <<1, 2>>
    /\ Deref(St, op.call.ret) = 2

\* ------------------------------------------------ PushFront and PopFront
NextFront ==
    \/ StepConstruct("front")
    \/ StepConstructFrom("front")
    \/ StepCopyConstruct("front")
    \/ StepDestroy("front")
    \/ StepCopyAssign("front")
    \/ StepSwap("front")
    \/ StepPushFront("front")
    \/ StepPopFront("front")
    \/ StepClear("front")
    \/ StepInsertAfter("front")
    \/ StepEraseAfter("front")
    \/ StepWrite("front")

SpecFront == Init /\ [][NextFront]_vars

\* C1: in every reachable state the GetSize() of every live list is the
\* number of nodes met from its sentinel's next_node up to the null link,
\* the sentinel not counted.
SizeIsChainLength ==
    \A l \in Lists : alive[l] => GetSize(St, l) = Len(Chain(St, l))

\* C1 witness: a PopFront has left a list of two nodes beside a list of one.
SizeIsChainLengthWitness ==
    /\ op.name = "PopFront"
    /\ \E l, m \in Lists :
         /\ alive[l] /\ alive[m]
         /\ Len(Chain(St, l)) = 2 /\ GetSize(St, l) = 2
         /\ Len(Chain(St, m)) = 1 /\ GetSize(St, m) = 1

\* C5: PushFront(v) adds 1 to the size, makes *begin() = v, and leaves the
\* elements the list had behind the new one, in their order.
PushFrontContract ==
    op.name = "PushFront" =>
      LET pre == op.pre
          l == op.call.list
          v == op.call.val
      IN  /\ GetSize(St, l) = GetSize(pre, l) + 1
          /\ Deref(St, begin(St, l)) = v
          /\ begin(St, l) \notin pre.alloc
          /\ Tail(Chain(St, l)) = Chain(pre, l)
          /\ Elems(St, l) = <<v>> \o Elems(pre, l)

\* C5 witness: PushFront(2) on the list 1, 1.
PushFrontWitness ==
    /\ op.name = "PushFront"
    /\ Elems(op.pre, op.call.list) = <<1, 1>>
    /\ Elems(St, op.call.list) = <<2, 1, 1>>

\* C7: PopFront on a non-empty list removes the first node and links the
\* sentinel to the former second node: the size goes down by 1, the second
\* element (if any) is at begin(), else begin() = end(), the rest keeps its
\* order.  On an empty list PopFront changes nothing.
PopFrontContract ==
    op.name = "PopFront" =>
      LET pre == op.pre
          l == op.call.list
      IN  IF Chain(pre, l) # <<>>
          THEN /\ GetSize(St, l) = GetSize(pre, l) - 1
               /\ Chain(St, l) = Tail(Chain(pre, l))
               /\ Elems(St, l) = Tail(Elems(pre, l))
               /\ begin(St, l) = pre.next_node[begin(pre, l)]
               /\ (Len(Chain(pre, l)) = 1) => IterEq(St, begin(St, l), end(St, l))
               /\ begin(pre, l) \notin alloc
          ELSE /\ GetSize(St, l) = GetSize(pre, l)
               /\ next_node = pre.next_node
               /\ value = pre.value
               /\ alloc = pre.alloc

\* C7 witness: PopFront on the list 1, 2 has left 2.
PopFrontWitness ==
    /\ op.name = "PopFront"
    /\ Elems(op.pre, op.call.list) = <<1, 2>>
    /\ Elems(St, op.call.list) = <<2>>

\* -------------------------------------------------------- construction
NextConstruct ==
    \/ StepConstruct("construct")
    \/ StepConstructFrom("construct")
    \/ StepCopyConstruct("construct")
    \/ StepDestroy("construct")
    \/ StepCopyAssign("construct")
    \/ StepSwap("construct")
    \/ StepPushFront("construct")
    \/ StepPopFront("construct")
    \/ StepClear("construct")
    \/ StepInsertAfter("construct")
    \/ StepEraseAfter("construct")
    \/ StepWrite("construct")

SpecConstruct == Init /\ [][NextConstruct]_vars

\* C9: a list constructed from a sequence of values, or copy-constructed
\* from a list, has the elements of its source in the same order and its
\* length as size; from an empty source it is empty.
ConstructionKeepsOrder ==
    /\ op.name = "SingleLinkedList(values)" =>
         LET l == op.call.list
             values == op.call.values
         IN  /\ Elems(St, l) = values
             /\ GetSize(St, l) = Len(values)
             /\ IsEmpty(St, l) <=> (values = <<>>)
    /\ op.name = "SingleLinkedList(other)" =>
         LET l == op.call.list
             source == Elems(op.pre, op.call.other)
         IN  /\ Elems(St, l) = source
             /\ GetSize(St, l) = Len(source)
             /\ IsEmpty(St, l) <=> (source = <<>>)

\* C9 witness: the copy constructor has copied the list 1, 2.
ConstructionKeepsOrderWitness ==
    /\ op.name = "SingleLinkedList(other)"
    /\ Elems(op.pre, op.call.other) = <<1, 2>>
    /\ Elems(St, op.call.list) = <<1, 2>>
    /\ GetSize(St, op.call.list) = 2

\* ------------------------------------------------------------- operator>
StepCompare(which) ==
    Idle /\ \E lhs, rhs \in Lists : DoCompare(which, lhs, rhs)

NextGreater ==
    \/ StepConstruct("nothing")
    \/ StepConstructFrom("nothing")
    \/ StepCopyConstruct("nothing")
    \/ StepDestroy("nothing")
    \/ StepCopyAssign("nothing")
    \/ StepSwap("nothing")
    \/ StepPushFront("nothing")
    \/ StepPopFront("nothing")
    \/ StepClear("nothing")
    \/ StepInsertAfter("nothing")
    \/ StepEraseAfter("nothing")
    \/ StepWrite("nothing")
    \/ StepCompare(">")

SpecGreater == Init /\ [][NextGreater]_vars

\* C2: a > b is the greater-than derived from less-than: it is true exactly
\* when b is lexicographically less than a, so it is false when a == b or
\* a < b.
GreaterIsReversedLess ==
    op.name = ">" =>
      (truth <=> LexLess(Elems(St, op.rhs), Elems(St, op.lhs)))

\* ----------------------------------------------------------------- Clear
\* Clear() run one turn of its loop at a time.  A call that has begun goes
\* on: the program has one thread and nothing interrupts it.
StepClearCall == Idle /\ \E l \in Lists : DoClearCall(l)

NextClear ==
    \/ StepConstruct("nothing")
    \/ StepConstructFrom("nothing")
    \/ StepCopyConstruct("nothing")
    \/ StepDestroy("nothing")
    \/ StepCopyAssign("nothing")
    \/ StepSwap("nothing")
    \/ StepPushFront("nothing")
    \/ StepPopFront("nothing")
    \/ StepInsertAfter("nothing")
    \/ StepEraseAfter("nothing")
    \/ StepWrite("nothing")
    \/ StepClearCall
    \/ DoClearLoop
    \/ DoClearReturn

SpecClear ==
    /\ Init /\ [][NextClear]_vars
    /\ WF_vars(DoClearLoop) /\ WF_vars(DoClearReturn)

\* C8: every Clear() that is called returns, and whenever one has returned
\* it has made one PopFront per element, IsEmpty() is true, GetSize() is 0
\* and begin() == end().
ClearTerminatesEmpty ==
    /\ (pc = "Clear") ~> (pc = "idle" /\ op.name = "Clear returned")
    /\ [](op.name = "Clear returned" =>
            /\ op.pops = op.len
            /\ IsEmpty(St, op.list)
            /\ GetSize(St, op.list) = 0
            /\ IterEq(St, begin(St, op.list), end(St, op.list)))

\* C8 witness: a Clear() of a list of three elements has returned.
ClearTerminatesWitness ==
    /\ op.name = "Clear returned"
    /\ op.len = 3
    /\ op.pops = 3
    /\ IsEmpty(St, op.list)

\* ------------------------------------------------------ copy construction
NextCopy ==
    \/ StepConstruct("copy")
    \/ StepConstructFrom("copy")
    \/ StepCopyConstruct("copy")
    \/ StepDestroy("copy")
    \/ StepCopyAssign("copy")
    \/ StepSwap("copy")
    \/ StepPushFront("copy")
    \/ StepPopFront("copy")
    \/ StepClear("copy")
    \/ StepInsertAfter("copy")
    \/ StepEraseAfter("copy")
    \/ StepWrite("copy")

SpecCopy == Init /\ [][NextCopy]_vars

\* C10: after C is copy-constructed from L the two share no node, and
\* whatever is then done to one of them (PushFront, PopFront, InsertAfter,
\* EraseAfter, Clear, writes through its iterators, its destruction) the
\* other keeps its nodes, its elements and its size.
CopyIsIndependent ==
    copied.made =>
      /\ Range(Chain(St, copied.src)) \cap Range(Chain(St, copied.dst)) = {}
      /\ \A x \in copied.clean :
           /\ alive[x]
           /\ Chain(St, x) = copied.chain[x]
           /\ Range(Chain(St, x)) \subseteq alloc
           /\ Elems(St, x) = copied.elems
           /\ GetSize(St, x) = Len(copied.elems)

\* C10 witness: the source of a copy 1, 2 has since become 2, 2 and the
\* copy is as it was made.
CopyIsIndependentWitness ==
    /\ copied.made
    /\ copied.clean = {copied.dst}
    /\ alive[copied.src]
    /\ Elems(St, copied.src) = <<2, 2>>
    /\ Elems(St, copied.dst) = <<1, 2>>

\* ------------------------------------------------------------- operator=
NextAssign ==
    \/ StepConstruct("assign")
    \/ StepConstructFrom("assign")
    \/ StepCopyConstruct("assign")
    \/ StepDestroy("assign")
    \/ StepCopyAssign("assign")
    \/ StepSwap("assign")
    \/ StepPushFront("assign")
    \/ StepPopFront("assign")
    \/ StepClear("assign")
    \/ StepInsertAfter("assign")
    \/ StepEraseAfter("assign")
    \/ StepWrite("assign")

SpecAssign == Init /\ [][NextAssign]_vars

\* C11: after a = b the elements and the size of a are those b had before, b
\* is as it was, and a and b share no node; after L = L the elements, the
\* size and the nodes of L are as they were.
CopyAssignContract ==
    op.name = "operator=" =>
      LET pre == op.pre
          a == op.call.list
          b == op.call.other
      IN  /\ Elems(St, a) = Elems(pre, b)
          /\ GetSize(St, a) = GetSize(pre, b)
          /\ GetSize(St, a) = Len(Elems(pre, b))
          /\ SameList(St, pre, b)
          /\ \A n \in Range(Chain(pre, b)) : value[n] = pre.value[n]
          /\ a # b => Range(Chain(St, a)) \cap Range(Chain(St, b)) = {}
          /\ a # b => Range(Chain(St, a)) \cap pre.alloc = {}
          /\ a = b => /\ next_node = pre.next_node
                      /\ value = pre.value
                      /\ alloc = pre.alloc

\* C11 witness: a = b has made the list 1 of a into the 2 of b, in a new
\* node.
CopyAssignWitness ==
    /\ op.name = "operator="
    /\ op.call.list # op.call.other
    /\ Elems(op.pre, op.call.list) = <<1>>
    /\ Elems(op.pre, op.call.other) = <<2>>
    /\ Elems(St, op.call.list) = <<2>>
    /\ Elems(St, op.call.other) = <<2>>
    /\ begin(St, op.call.list) # begin(St, op.call.other)

\* ------------------------------------------------------------------ swap
NextSwap ==
    \/ StepConstruct("swap")
    \/ StepConstructFrom("swap")
    \/ StepCopyConstruct("swap")
    \/ StepDestroy("swap")
    \/ StepCopyAssign("swap")
    \/ StepSwap("swap")
    \/ StepPushFront("swap")
    \/ StepPopFront("swap")
    \/ StepClear("swap")
    \/ StepInsertAfter("swap")
    \/ StepEraseAfter("swap")
    \/ StepWrite("swap")

SpecSwap == Init /\ [][NextSwap]_vars

\* C12: swap(A, B) gives A the nodes, elements and size B had and B those A
\* had, allocates, frees and copies no node, and a second swap(A, B) gives
\* both lists back what they had.
SwapContract ==
    op.name = "swap" =>
      LET pre == op.pre
          a == op.call.list
          b == op.call.other
      IN  /\ Chain(St, a) = Chain(pre, b) /\ Chain(St, b) = Chain(pre, a)
          /\ Elems(St, a) = Elems(pre, b) /\ Elems(St, b) = Elems(pre, a)
          /\ GetSize(St, a) = GetSize(pre, b) /\ GetSize(St, b) = GetSize(pre, a)
          /\ alloc = pre.alloc
          /\ value = pre.value
          /\ \A n \in Addrs : next_node[n] = pre.next_node[n]
          /\ swap(St, a, b) = pre

\* C12 witness: swap has exchanged the lists 1, 2 and 2.
SwapWitness ==
    /\ op.name = "swap"
    /\ op.call.list # op.call.other
    /\ Elems(op.pre, op.call.list) = <<1, 2>>
    /\ Elems(op.pre, op.call.other) = <<2>>
    /\ Elems(St, op.call.list) = <<2>>
    /\ Elems(St, op.call.other) = <<1, 2>>

\* ------------------------------------------------------------- operator<
NextLess ==
    \/ StepConstruct("nothing")
    \/ StepConstructFrom("nothing")
    \/ StepCopyConstruct("nothing")
    \/ StepDestroy("nothing")
    \/ StepCopyAssign("nothing")
    \/ StepSwap("nothing")
    \/ StepPushFront("nothing")
    \/ StepPopFront("nothing")
    \/ StepClear("nothing")
    \/ StepInsertAfter("nothing")
    \/ StepEraseAfter("nothing")
    \/ StepWrite("nothing")
    \/ StepCompare("<")

SpecLess == Init /\ [][NextLess]_vars

\* C13: a < b compares the element sequences lexicographically: the first
\* index at which they differ decides; when there is none (one is a prefix
\* of the other) the shorter one is less; a < a is false.
LessIsLexicographic ==
    op.name = "<" =>
      LET s == Elems(St, op.lhs)
          t == Elems(St, op.rhs)
          differ == {i \in 1..Len(s) : i <= Len(t) /\ s[i] # t[i]}
          first == CHOOSE i \in differ : \A j \in differ : i <= j
      IN  /\ differ # {} => (truth <=> s[first] < t[first])
          /\ differ = {} => (truth <=> Len(s) < Len(t))
          /\ op.lhs = op.rhs => ~truth

\* C13 witness: 1 < 1, 2 has been found true, the shorter list being a
\* prefix of the longer.
LessWitness ==
    /\ op.name = "<"
    /\ Elems(St, op.lhs) = <<1>>
    /\ Elems(St, op.rhs) = <<1, 2>>
    /\ truth

\* ------------------------------------------------ operator== and operator!=
NextEqual ==
    \/ StepConstruct("nothing")
    \/ StepConstructFrom("nothing")
    \/ StepCopyConstruct("nothing")
    \/ StepDestroy("nothing")
    \/ StepCopyAssign("nothing")
    \/ StepSwap("nothing")
    \/ StepPushFront("nothing")
    \/ StepPopFront("nothing")
    \/ StepClear("nothing")
    \/ StepInsertAfter("nothing")
    \/ StepEraseAfter("nothing")
    \/ StepWrite("nothing")
    \/ StepCompare("==")
    \/ StepCompare("!=")

SpecEqual == Init /\ [][NextEqual]_vars

\* C14: a == b is true exactly when a and b are the same object or have the
\* same size and equal elements at every position; a != b is the negation;
\* L == L is true.
EqualContract ==
    op.name \in {"==", "!="} =>
      LET s == Elems(St, op.lhs)
          t == Elems(St, op.rhs)
          equal == \/ op.lhs = op.rhs
                   \/ /\ GetSize(St, op.lhs) = GetSize(St, op.rhs)
                      /\ Len(s) = Len(t)
                      /\ \A i \in 1..Len(s) : s[i] = t[i]
      IN  /\ op.name = "==" => (truth <=> equal)
          /\ op.name = "!=" => (truth <=> ~equal)
          /\ op.lhs = op.rhs => (truth <=> op.name = "==")

\* C14 witness: two lists 1, 2 in different objects have been found equal.
EqualWitness ==
    /\ op.name = "=="
    /\ op.lhs # op.rhs
    /\ Elems(St, op.lhs) = <<1, 2>>
    /\ Elems(St, op.rhs) = <<1, 2>>
    /\ truth

\* ------------------------------------------------- BasicIterator::operator==
StepIterCompare ==
    /\ Idle
    /\ \E l, m \in Lists : \E it \in Iters(St, l) : \E jt \in Iters(St, m) :
         DoIterCompare(l, it, m, jt)

NextIterator ==
    \/ StepConstruct("nothing")
    \/ StepConstructFrom("nothing")
    \/ StepCopyConstruct("nothing")
    \/ StepDestroy("nothing")
    \/ StepCopyAssign("nothing")
    \/ StepSwap("nothing")
    \/ StepPushFront("nothing")
    \/ StepPopFront("nothing")
    \/ StepClear("nothing")
    \/ StepInsertAfter("nothing")
    \/ StepEraseAfter("nothing")
    \/ StepWrite("nothing")
    \/ StepIterCompare
    \/ DoIterCompared

SpecIterator == Init /\ [][NextIterator]_vars

\* C15: two iterators, of one list or of two, are equal exactly when they
\* refer to the same node or are both end(), and operator!= returns the
\* negation.
IteratorsEqualIffSameNode ==
    op.name = "iterator==" =>
      /\ truth <=> op.same_node
      /\ op.ne <=> ~truth

\* C20: for two iterators into the same list (before_begin(), an element,
\* or end()) operator==, which compares next-links, answers as comparing
\* the nodes would; ++before_begin() == begin() and before_begin() !=
\* begin() hold for empty and non-empty lists.
IteratorEqualityInOneList ==
    /\ (op.name = "iterator==" /\ op.same_list) =>
         /\ truth <=> op.same_node
         /\ op.ne <=> ~op.same_node
         /\ op.before_begin_begin => (~truth /\ op.ne)
    /\ \A l \in Lists : alive[l] =>
         /\ IterEq(St, Incr(St, before_begin(St, l)), begin(St, l))
         /\ IterNe(St, before_begin(St, l), begin(St, l))

\* C20 witness: before_begin() and begin() of a non-empty list have been
\* found unequal.
IteratorEqualityWitness ==
    /\ op.name = "iterator=="
    /\ op.same_list /\ op.before_begin_begin /\ ~op.empty
    /\ ~truth /\ op.ne

\* ------------------------------------------------------------ exceptions
StepInsertAfterThrows ==
    /\ Idle
    /\ \E l \in Lists : \E pos \in Positions(St, l) : \E v \in Values :
         DoInsertAfterThrows(l, pos, v)

\* Of the copies a construction makes, copy number k throws.
StepConstructFromThrows ==
    /\ Idle
    /\ \E l \in Lists : \E values \in ValueSeqs(MaxThrowAt) :
         \E k \in 1..Len(values) :
           /\ k - 1 <= Cardinality(Free)
           /\ \E addrs \in ThrowingAddrs(k) :
                \E unwinds \in BOOLEAN :
                  DoConstructFromThrows(l, values, addrs, unwinds)

StepCopyConstructThrows ==
    /\ Idle
    /\ \E l, other \in Lists :
         \E k \in 1..Len(Chain(St, other)) :
           /\ k - 1 <= Cardinality(Free)
           /\ \E addrs \in ThrowingAddrs(k) : \E unwinds \in BOOLEAN :
                DoCopyConstructThrows(l, other, addrs, unwinds)

StepCopyAssignThrows ==
    /\ Idle
    /\ \E l, rhs \in Lists :
         \E k \in 1..Len(Chain(St, rhs)) :
           /\ k - 1 <= Cardinality(Free)
           /\ \E addrs \in ThrowingAddrs(k) : \E unwinds \in BOOLEAN :
                DoCopyAssignThrows(l, rhs, addrs, unwinds)

NextThrow ==
    \/ StepConstruct("nothing")
    \/ StepConstructFrom("nothing")
    \/ StepCopyConstruct("nothing")
    \/ StepDestroy("nothing")
    \/ StepCopyAssign("nothing")
    \/ StepSwap("nothing")
    \/ StepPushFront("nothing")
    \/ StepPopFront("nothing")
    \/ StepClear("nothing")
    \/ StepInsertAfter("nothing")
    \/ StepEraseAfter("nothing")
    \/ StepWrite("nothing")
    \/ StepInsertAfterThrows
    \/ StepConstructFromThrows
    \/ StepCopyConstructThrows
    \/ StepCopyAssignThrows
    \/ DoCatch

SpecThrow == Init /\ [][NextThrow]_vars

\* C16: when the copy of the value throws in InsertAfter(pos, v), the
\* exception reaches the caller and the list is as before the call: size,
\* elements and every next_node, that of pos included.
InsertAfterThrowsLeavesList ==
    (op.name = "InsertAfter" /\ pc # "idle") =>
      /\ op.exc = "thrown" /\ pc = "thrown"
      /\ next_node = op.pre.next_node
      /\ value = op.pre.value
      /\ size_ = op.pre.size_
      /\ alloc = op.pre.alloc
      /\ SameList(St, op.pre, op.call.list)

\* C16 witness: the copy has thrown in an InsertAfter(begin(), v) on 1, 2.
InsertAfterThrowsWitness ==
    /\ op.name = "InsertAfter" /\ pc = "thrown"
    /\ op.call.pos = begin(op.pre, op.call.list)
    /\ Elems(op.pre, op.call.list) = <<1, 2>>
    /\ Elems(St, op.call.list) = <<1, 2>>
    /\ Free # {}

\* C17: when a copy throws during construction from values, copy
\* construction or copy assignment, the exception reaches the caller, the
\* list being made or assigned is as before (not constructed; for a = b
\* the elements and the size of a as they were) and the nodes built so far
\* are released.
CopyFailureIsReported ==
    (op.name \in {"SingleLinkedList(values)", "SingleLinkedList(other)",
                  "operator="} /\ pc # "idle") =>
      /\ op.exc = "thrown" /\ pc = "thrown"
      /\ alloc = op.pre.alloc
      /\ \A m \in Lists : alive[m] => SameList(St, op.pre, m)

\* ---------------------------------------------------------------- delete
NextDelete ==
    \/ StepConstruct("delete")
    \/ StepConstructFrom("delete")
    \/ StepCopyConstruct("delete")
    \/ StepDestroy("delete")
    \/ StepCopyAssign("delete")
    \/ StepSwap("delete")
    \/ StepPushFront("delete")
    \/ StepPopFront("delete")
    \/ StepClear("delete")
    \/ StepInsertAfter("delete")
    \/ StepEraseAfter("delete")
    \/ StepWrite("delete")
    \/ DoReturned

SpecDelete == Init /\ [][NextDelete]_vars

\* The nodes reachable from the sentinel of a live list.
Owned(h) == UNION {Range(Chain(h, l)) : l \in {m \in Lists : alive[m]}}

\* C18: no call deletes a node twice, a node that was not allocated, or a
\* node a live list still reaches; the allocated nodes are those the live
\* lists reach, so each is deleted once, by the call that takes it off its
\* list or destroys the list; ~SingleLinkedList (and Clear) delete the
\* nodes of the list from the first to the last and leave none allocated.
NodesReleasedOnce ==
    /\ alloc = Owned(St)
    /\ pc = "returned" =>
         /\ \A i, j \in 1..Len(op.freed) : i # j => op.freed[i] # op.freed[j]
         /\ Range(op.freed) \subseteq op.pre_alloc
         /\ Range(op.freed) \cap alloc = {}
         /\ Range(op.freed) \cap Owned(St) = {}
         /\ op.pre_alloc \ alloc = Range(op.freed)
         /\ op.name \in {"~SingleLinkedList", "Clear"} => op.freed = op.owned
         /\ op.name = "~SingleLinkedList" =>
              /\ ~alive[op.list]
              /\ Range(op.owned) \cap alloc = {}

\* C18 witness: a list of three nodes has been destroyed while the other
\* list holds a node.
NodesReleasedWitness ==
    /\ pc = "returned" /\ op.name = "~SingleLinkedList"
    /\ Len(op.owned) = 3 /\ op.freed = op.owned
    /\ alloc # {}

\* ---------------------------------------------------------------- chains
\* C19: in every reachable state the chain of every live list, followed
\* from its sentinel, visits no node twice and ends in a null next_node,
\* and no node is on the chains of two lists.
ChainsAcyclicAndDisjoint ==
    \A l \in Lists : alive[l] =>
      LET c == Chain(St, l) IN
      /\ Len(c) <= MaxNodes
      /\ \A i, j \in 1..Len(c) : i # j => c[i] # c[j]
      /\ \A i \in 1..Len(c) : c[i] \in Addrs
      /\ next_node[IF c = <<>> THEN head_(l) ELSE c[Len(c)]] = Null
      /\ \A m \in Lists \ {l} : alive[m] => Range(c) \cap Range(Chain(St, m)) = {}

\* C19 witness: two lists of two nodes each have been swapped.
ChainsWitness ==
    /\ pc = "returned" /\ op.name = "swap"
    /\ \A l \in Lists : alive[l] /\ Len(Chain(St, l)) = 2

====
